---- MODULE Spec2Model ----
(***************************************************************************)
(* A model of the Terabox shared-link downloader: the driver               *)
(* (main.py: main, process_video), the URL validator (src/utils.py), the   *)
(* Metadata Extractor (src/extractor.py), the Direct-Link Resolver and the *)
(* Streaming Downloader (src/generator.py).                                *)
(*                                                                         *)
(* Strings the code inspects character by character (URLs, file names)     *)
(* are sequences of one-character strings.  Every await of the code is one *)
(* step of the model: it completes, raises an Exception, or is interrupted *)
(* (asyncio.CancelledError, a BaseException) at that suspension point.     *)
(***************************************************************************)
EXTENDS Integers, Sequences, FiniteSets, TLC

VARIABLES
    \* ---- the pipeline (Spec) ----
    pc,           \* control location of main / process_video / the stage running
    url,          \* the share URL given on the command line
    pw,           \* async_playwright() context of each stage: "none" | "started" | "stopped"
    browser,      \* browser session of each stage: "none" | "open" | "closed"
    closeCalls,   \* stages whose code has called browser.close()
    log,          \* collaborator calls issued so far, in order
    exStep,       \* extractor: index in ExSteps of the await being run
    exRet,        \* extractor: the tuple get_video_info returns
    gStep,        \* resolver: index in GenSteps of the await being run
    gen,          \* resolver locals: csrf_token, direct_download, last_error, api index,
                  \* how the browser block ended, how the plain GET ended
    genRet,       \* resolver: the tuple generate_download_link returns
    pending,      \* exception propagating out of the running stage ("" when none)
    dlCall,       \* arguments process_video handed to download_video (<<>> when never called)
    out,          \* lines printed by process_video and main
    \* ---- the URL validator alone (SpecValidate) ----
    vUrl,         \* the URL validate_terabox_url is applied to
    vResult,      \* "pending", then "True" or "False"
    \* ---- the Downloader alone (SpecDownload) ----
    dlPc,         \* control location of download_video
    dlInfo,       \* file_info
    dlBody,       \* the bytes of the response body
    dlSent,       \* how many of them iter_content has delivered
    dlChunks,     \* the chunks delivered, in arrival order
    dlFilename,   \* the sanitized file name
    dlFile,       \* content of the file at output_path
    dlHandle,     \* the handle of the with block: "never" | "open" | "closed"
    dlRet         \* the tuple download_video returns

pipeVars == <<pc, url, pw, browser, closeCalls, log, exStep, exRet, gStep, gen,
              genRet, pending, dlCall, out>>
valVars  == <<vUrl, vResult>>
dlVars   == <<dlPc, dlInfo, dlBody, dlSent, dlChunks, dlFilename, dlFile, dlHandle,
               dlRet>>
vars     == <<pipeVars, valVars, dlVars>>

None == "None"

\* Python truthiness of an Optional[str]: None and "" are falsy.
Falsy(x) == x = None \/ x = ""

---------------------------------------------------------------------------
(* Character strings *)

Concat(ss) ==
    LET RECURSIVE cat(_)
        cat(k) == IF k > Len(ss) THEN <<>> ELSE ss[k] \o cat(k + 1)
    IN  cat(1)

\* str.find(c): the first index of c in s (1-based), 0 when absent.
Find(s, c) ==
    IF \E k \in 1..Len(s) : s[k] = c
    THEN CHOOSE k \in 1..Len(s) : s[k] = c /\ \A j \in 1..(k - 1) : s[j] # c
    ELSE 0

\* str.rfind(c): the last index of c in s (1-based), 0 when absent.
RFind(s, c) ==
    IF \E k \in 1..Len(s) : s[k] = c
    THEN CHOOSE k \in 1..Len(s) : s[k] = c /\ \A j \in (k + 1)..Len(s) : s[j] # c
    ELSE 0

Contains(s, c) == \E k \in 1..Len(s) : s[k] = c

EndsWith(s, suffix) ==
    /\ Len(s) >= Len(suffix)
    /\ SubSeq(s, Len(s) - Len(suffix) + 1, Len(s)) = suffix

LowerLetters == <<"a","b","c","d","e","f","g","h","i","j","k","l","m",
                  "n","o","p","q","r","s","t","u","v","w","x","y","z">>
UpperLetters == <<"A","B","C","D","E","F","G","H","I","J","K","L","M",
                  "N","O","P","Q","R","S","T","U","V","W","X","Y","Z">>
Digits == {"0","1","2","3","4","5","6","7","8","9"}
Letters == {LowerLetters[k] : k \in 1..26} \cup {UpperLetters[k] : k \in 1..26}

\* str.lower() on one character, and on a string.
LowerChar(c) ==
    IF \E k \in 1..26 : UpperLetters[k] = c
    THEN LowerLetters[CHOOSE k \in 1..26 : UpperLetters[k] = c]
    ELSE c
Lower(s) == [k \in 1..Len(s) |-> LowerChar(s[k])]

---------------------------------------------------------------------------
(* src/utils.py: validate_terabox_url *)

\* urllib.parse.scheme_chars
SchemeChars == Letters \cup Digits \cup {"+", "-", "."}

\* urllib.parse.urlparse as validate_terabox_url uses it: the scheme is cut
\* at the first ':' when everything before it is scheme characters, the
\* netloc is what follows a leading '//' up to the first of '/', '?', '#',
\* the fragment and the query are cut off the rest, what remains is the
\* path.  An unbalanced '[' or ']' in the netloc raises ValueError.
urlparse(u) ==
    LET i         == Find(u, ":")
        hasScheme == /\ i > 1
                     /\ u[1] \in Letters
                     /\ \A k \in 1..(i - 1) : u[k] \in SchemeChars
        r1        == IF hasScheme THEN SubSeq(u, i + 1, Len(u)) ELSE u
        hasNetloc == Len(r1) >= 2 /\ r1[1] = "/" /\ r1[2] = "/"
        delims    == {k \in 3..Len(r1) : r1[k] \in {"/", "?", "#"}}
        delim     == IF delims = {} THEN Len(r1) + 1
                     ELSE CHOOSE k \in delims : \A j \in delims : k <= j
        netloc    == IF hasNetloc THEN SubSeq(r1, 3, delim - 1) ELSE <<>>
        r2        == IF hasNetloc THEN SubSeq(r1, delim, Len(r1)) ELSE r1
        f         == Find(r2, "#")
        r3        == IF f > 0 THEN SubSeq(r2, 1, f - 1) ELSE r2
        q         == Find(r3, "?")
        path      == IF q > 0 THEN SubSeq(r3, 1, q - 1) ELSE r3
    IN  [raised |-> hasNetloc /\ (Contains(netloc, "[") # Contains(netloc, "]")),
         scheme |-> IF hasScheme THEN Lower(SubSeq(u, 1, i - 1)) ELSE <<>>,
         netloc |-> netloc,
         path   |-> path]

H_terabox       == <<"t","e","r","a","b","o","x",".","c","o","m">>
H_terasharelink == <<"t","e","r","a","s","h","a","r","e","l","i","n","k",".","c","o","m">>
H_www           == <<"w","w","w",".">>

\* The list literal of the membership test.
AllowedNetlocs ==
    {H_www \o H_terabox, H_terabox, H_terasharelink, H_www \o H_terasharelink}

validate_terabox_url(u) ==
    LET parsed == urlparse(u)
    IN  IF parsed.raised THEN FALSE
        ELSE parsed.netloc \in AllowedNetlocs /\ parsed.path # <<>>

---------------------------------------------------------------------------
(* The pipeline: inputs and collaborator results *)

U_scheme == <<"h","t","t","p","s",":">>
U_slashes == <<"/","/">>
U_path   == <<"/","s">>
H_evil   == <<"e","v","i","l",".","c","o","m">>

\* The command-line URLs of the pipeline runs: a share link, a link of
\* another site, and a share host without a path.
PipelineUrls ==
    {Concat(<<U_scheme, U_slashes, H_terabox, U_path>>),
     Concat(<<U_scheme, U_slashes, H_evil, U_path>>),
     Concat(<<U_scheme, U_slashes, H_terabox>>)}

output_dir == "videos"

Stages == {"extractor", "resolver"}

\* What page.evaluate can return to get_video_info: the name node found or not.
NoInfo == [present |-> FALSE, name |-> <<>>, size |-> ""]
PageInfos ==
    {[present |-> TRUE, name |-> <<"a">>, size |-> "1 MB"],
     [present |-> TRUE, name |-> <<"a">>, size |-> ""],
     [present |-> TRUE, name |-> <<>>, size |-> "1 MB"]}

API_BASES ==
    <<"https://www.terabox.app", "https://www.teraboxapp.com",
      "https://terabox.com", "https://terasharelink.com">>

\* The dlink a base's share-download answer carries when it has one.
DlinkOf(i) == <<"dlink@terabox.app", "dlink@teraboxapp.com",
                "dlink@terabox.com", "dlink@terasharelink.com">>[i]

Call(stage, call, base) == [stage |-> stage, call |-> call, base |-> base]

Line(prefix, msg) == [prefix |-> prefix, msg |-> msg]

\* str(e) of the exception that reached main
ExcText(e) ==
    CASE e = "ValueError" -> "not enough values to unpack (expected 3, got 2)"
      [] e = "TypeError"  -> "download_video() takes from 3 to 4 positional arguments but 5 were given"
      [] OTHER            -> "playwright could not start"

InitValidateIdle == vUrl = <<>> /\ vResult = "idle"

InitDownloadIdle ==
    /\ dlPc = "idle" /\ dlInfo = NoInfo /\ dlBody = <<>> /\ dlSent = 0
    /\ dlChunks = <<>> /\ dlFilename = <<>> /\ dlFile = <<>>
    /\ dlHandle = "never" /\ dlRet = <<>>

PipelineFresh ==
    /\ pw = [s \in Stages |-> "none"]
    /\ browser = [s \in Stages |-> "none"]
    /\ closeCalls = {} /\ log = <<>>
    /\ exStep = 0 /\ exRet = <<>>
    /\ gStep = 0
    /\ gen = [csrf_token |-> None, direct_download |-> None,
              last_error |-> "", api |-> 0, after |-> "", plain |-> ""]
    /\ genRet = <<>> /\ pending = "" /\ dlCall = <<>> /\ out = <<>>

InitPipelineIdle == pc = "idle" /\ url = <<>> /\ PipelineFresh

\* main() has parsed its arguments and is about to run process_video.
Init ==
    /\ pc = "main" /\ url \in PipelineUrls /\ PipelineFresh
    /\ InitValidateIdle /\ InitDownloadIdle

Unpipe == UNCHANGED <<valVars, dlVars>>

Logged(stage, call, base) == log' = Append(log, Call(stage, call, base))

---------------------------------------------------------------------------
(* main.py: main and the head of process_video *)

\* main.py:88-90  asyncio.run(process_video(args.url, args.output))
Main_Run ==
    /\ pc = "main"
    /\ pc' = "pv_validate"
    /\ UNCHANGED <<url, pw, browser, closeCalls, log, exStep, exRet, gStep, gen,
                   genRet, pending, dlCall, out>>
    /\ Unpipe

\* Mutant of PV_Validate: the result of the validation is not acted on.
PV_Validate_Ungated ==
    /\ pc = "pv_validate"
    /\ out' = out
    /\ pc' = "ex_enter"
    /\ UNCHANGED <<url, pw, browser, closeCalls, log, exStep, exRet, gStep, gen,
                   genRet, pending, dlCall>>
    /\ Unpipe

\* main.py:19-29  the validation gate, then the call of get_video_info
PV_Validate ==
    /\ pc = "pv_validate"
    /\ IF ~validate_terabox_url(url)
       THEN /\ out' = Append(out, Line("Error: ", "Invalid Terabox URL"))
            /\ pc' = "pv_return"
       ELSE /\ out' = out
            /\ pc' = "ex_enter"
    /\ UNCHANGED <<url, pw, browser, closeCalls, log, exStep, exRet, gStep, gen,
                   genRet, pending, dlCall>>
    /\ Unpipe

---------------------------------------------------------------------------
(* src/extractor.py: TeraboxExtractor.get_video_info *)

\* The awaits of the try block, lines 24-47, in order.
ExSteps == <<"launch", "new_context", "new_page", "goto",
             "wait_for_load_state", "evaluate">>

\* extractor.py:21  async with async_playwright() as p
Ex_Enter ==
    /\ pc = "ex_enter"
    /\ pw' = [pw EXCEPT !["extractor"] = "started"]
    /\ exStep' = 1
    /\ pc' = "ex_step"
    /\ UNCHANGED <<url, browser, closeCalls, log, exRet, gStep, gen, genRet,
                   pending, dlCall, out>>
    /\ Unpipe

\* extractor.py:21  the context manager itself fails to start: it stands
\* outside the try, so the exception leaves get_video_info and process_video.
Ex_EnterRaise ==
    /\ pc = "ex_enter"
    /\ pending' = "Exception"
    /\ pc' = "main_except"
    /\ UNCHANGED <<url, pw, browser, closeCalls, log, exStep, exRet, gStep, gen,
                   genRet, dlCall, out>>
    /\ Unpipe

\* extractor.py:24-34  launch, new_context, new_page, goto, wait_for_load_state
Ex_StepOk ==
    /\ pc = "ex_step"
    /\ ExSteps[exStep] # "evaluate"
    /\ Logged("extractor", ExSteps[exStep], 0)
    /\ browser' = IF ExSteps[exStep] = "launch"
                  THEN [browser EXCEPT !["extractor"] = "open"]
                  ELSE browser
    /\ exStep' = exStep + 1
    /\ UNCHANGED <<pc, url, pw, closeCalls, exRet, gStep, gen, genRet, pending,
                   dlCall, out>>
    /\ Unpipe

\* extractor.py:49-53  the tuple returned for what page.evaluate gave
ExtractorResult(info) ==
    IF info.name = <<>>
    THEN <<NoInfo, "Could not find video information on page">>
    ELSE <<info, "">>

\* extractor.py:37-53  page.evaluate, the name check and the return
Ex_Evaluate ==
    /\ pc = "ex_step"
    /\ ExSteps[exStep] = "evaluate"
    /\ Logged("extractor", "evaluate", 0)
    /\ \E info \in PageInfos : exRet' = ExtractorResult(info)
    /\ pc' = "ex_finally"
    /\ UNCHANGED <<url, pw, browser, closeCalls, exStep, gStep, gen, genRet,
                   pending, dlCall, out>>
    /\ Unpipe

\* extractor.py:55-56  an Exception of any await of the try block
Ex_StepRaise ==
    /\ pc = "ex_step"
    /\ Logged("extractor", ExSteps[exStep], 0)
    /\ exRet' = <<NoInfo, "Extraction error: browser failure">>
    /\ pc' = "ex_finally"
    /\ UNCHANGED <<url, pw, browser, closeCalls, exStep, gStep, gen, genRet,
                   pending, dlCall, out>>
    /\ Unpipe

\* An interruption at a suspension point of the try block: CancelledError
\* is no Exception, so only the finally clause runs.
Ex_Interrupt ==
    /\ pc = "ex_step"
    /\ Logged("extractor", ExSteps[exStep], 0)
    /\ pending' = "CancelledError"
    /\ pc' = "ex_finally"
    /\ UNCHANGED <<url, pw, browser, closeCalls, exStep, exRet, gStep, gen,
                   genRet, dlCall, out>>
    /\ Unpipe

\* Mutant of Ex_Finally: the close stands at the end of the try block
\* instead of in a finally clause, so only a run without an exception or
\* interruption reaches it.
Ex_Finally_OnSuccessOnly ==
    /\ pc = "ex_finally"
    /\ IF browser["extractor"] = "none" \/ pending # "" \/ ~exRet[1].present
       THEN UNCHANGED <<browser, closeCalls, log>>
       ELSE /\ closeCalls' = closeCalls \cup {"extractor"}
            /\ Logged("extractor", "close", 0)
            /\ browser' = [browser EXCEPT !["extractor"] = "closed"]
    /\ pc' = "ex_exit"
    /\ UNCHANGED <<url, pw, exStep, exRet, gStep, gen, genRet, pending, dlCall, out>>
    /\ Unpipe

\* extractor.py:58-62  finally: try: await browser.close() except: pass.
\* With `browser` unbound (launch did not complete) the NameError is
\* swallowed; a close that fails or is interrupted is swallowed too and
\* leaves the session to the context manager.
Ex_Finally ==
    /\ pc = "ex_finally"
    /\ IF browser["extractor"] = "none"
       THEN UNCHANGED <<browser, closeCalls, log>>
       ELSE /\ closeCalls' = closeCalls \cup {"extractor"}
            /\ Logged("extractor", "close", 0)
            /\ \E closed \in BOOLEAN :
                 browser' = IF closed
                            THEN [browser EXCEPT !["extractor"] = "closed"]
                            ELSE browser
    /\ pc' = "ex_exit"
    /\ UNCHANGED <<url, pw, exStep, exRet, gStep, gen, genRet, pending, dlCall, out>>
    /\ Unpipe

\* Mutant of StopDriver: stopping the driver leaves its browsers running.
StopDriver_LeavesBrowser(stage) ==
    /\ pw' = [pw EXCEPT ![stage] = "stopped"]
    /\ browser' = browser

\* Leaving `async with async_playwright()`: the driver is stopped, which
\* ends every browser it launched.
StopDriver(stage) ==
    /\ pw' = [pw EXCEPT ![stage] = "stopped"]
    /\ browser' = IF browser[stage] = "open"
                  THEN [browser EXCEPT ![stage] = "closed"]
                  ELSE browser

\* extractor.py:21  the end of the async with block: get_video_info returns
\* its tuple, or the interruption goes on to main.
Ex_Exit ==
    /\ pc = "ex_exit"
    /\ StopDriver("extractor")
    /\ pc' = IF pending # "" THEN "main_interrupt" ELSE "pv_extracted"
    /\ UNCHANGED <<url, closeCalls, log, exStep, exRet, gStep, gen, genRet,
                   pending, dlCall, out>>
    /\ Unpipe

\* main.py:29-48  video_info, error = ...; the two checks; the prints; the
\* call of generate_download_link
PV_Extracted ==
    /\ pc = "pv_extracted"
    /\ LET video_info == exRet[1]
           error      == exRet[2]
       IN  IF ~Falsy(error)
           THEN /\ out' = Append(out, Line("Error: ", error))
                /\ pc' = "pv_return"
           ELSE IF ~video_info.present
           THEN /\ out' = Append(out, Line("Error: ", "Failed to extract video information"))
                /\ pc' = "pv_return"
           ELSE /\ out' = out
                /\ pc' = "gen_enter"
    /\ UNCHANGED <<url, pw, browser, closeCalls, log, exStep, exRet, gStep, gen,
                   genRet, pending, dlCall>>
    /\ Unpipe

---------------------------------------------------------------------------
(* src/generator.py: LinkGenerator.generate_download_link, browser part *)

\* The awaits inside the async with block, lines 40-165, in order.
GenSteps == <<"launch", "new_context", "new_page", "goto", "wait_for_load_state",
              "evaluate_csrf", "content", "evaluate_direct", "evaluate_file_id",
              "cookies", "wait_for_timeout", "cookies_again", "screenshot",
              "click", "wait_for_timeout_click", "screenshot_click", "close">>

StepNo(name) == CHOOSE k \in 1..Len(GenSteps) : GenSteps[k] = name

\* Steps whose result the rest of the function does not branch on.
PlainSteps == {"new_context", "new_page", "goto", "wait_for_load_state",
               "evaluate_file_id", "cookies", "wait_for_timeout", "cookies_again",
               "screenshot", "click", "wait_for_timeout_click", "screenshot_click"}

\* generator.py:157-163  the awaits inside the inner try/except Exception
ClickSteps == {"click", "wait_for_timeout_click", "screenshot_click"}

\* The await that follows step k once it has completed: page.content() is
\* awaited only without a token (line 84), the click block only with a
\* scraped link (line 155).
NextGenStep(k, csrf_token, direct_download) ==
    CASE GenSteps[k] = "evaluate_csrf" ->
           IF Falsy(csrf_token) THEN StepNo("content") ELSE StepNo("evaluate_direct")
      [] GenSteps[k] = "screenshot" ->
           IF ~Falsy(direct_download) THEN StepNo("click") ELSE StepNo("close")
      [] OTHER -> k + 1

\* generator.py:35-39  try: async with async_playwright() as p
Gen_Enter ==
    /\ pc = "gen_enter"
    /\ pw' = [pw EXCEPT !["resolver"] = "started"]
    /\ gStep' = 1
    /\ pc' = "gen_step"
    /\ UNCHANGED <<url, browser, closeCalls, log, exStep, exRet, gen, genRet,
                   pending, dlCall, out>>
    /\ Unpipe

\* generator.py:40  browser = await p.chromium.launch(headless=False)
Gen_Launch ==
    /\ pc = "gen_step"
    /\ GenSteps[gStep] = "launch"
    /\ Logged("resolver", "launch", 0)
    /\ browser' = [browser EXCEPT !["resolver"] = "open"]
    /\ gStep' = gStep + 1
    /\ UNCHANGED <<pc, url, pw, closeCalls, exStep, exRet, gen, genRet, pending,
                   dlCall, out>>
    /\ Unpipe

\* generator.py:41-46, 126-160  an await that completes
Gen_Plain ==
    /\ pc = "gen_step"
    /\ GenSteps[gStep] \in PlainSteps
    /\ Logged("resolver", GenSteps[gStep], 0)
    /\ gStep' = NextGenStep(gStep, gen.csrf_token, gen.direct_download)
    /\ UNCHANGED <<pc, url, pw, browser, closeCalls, exStep, exRet, gen, genRet,
                   pending, dlCall, out>>
    /\ Unpipe

\* generator.py:49-84  the DOM evaluation that looks for a CSRF token
Gen_EvalCsrf ==
    /\ pc = "gen_step"
    /\ GenSteps[gStep] = "evaluate_csrf"
    /\ Logged("resolver", "evaluate_csrf", 0)
    /\ \E tok \in {None, "", "tok"} :
         /\ gen' = [gen EXCEPT !.csrf_token = tok]
         /\ gStep' = NextGenStep(gStep, tok, gen.direct_download)
    /\ UNCHANGED <<pc, url, pw, browser, closeCalls, exStep, exRet, genRet,
                   pending, dlCall, out>>
    /\ Unpipe

\* generator.py:85-98  page.content() and the regular expressions over it
Gen_Content ==
    /\ pc = "gen_step"
    /\ GenSteps[gStep] = "content"
    /\ Logged("resolver", "content", 0)
    /\ \E tok \in {gen.csrf_token, "tok"} : gen' = [gen EXCEPT !.csrf_token = tok]
    /\ gStep' = gStep + 1
    /\ UNCHANGED <<pc, url, pw, browser, closeCalls, exStep, exRet, genRet,
                   pending, dlCall, out>>
    /\ Unpipe

\* generator.py:101-120  the page scrape: anchor href, button data-link/href, or null
Gen_EvalDirect ==
    /\ pc = "gen_step"
    /\ GenSteps[gStep] = "evaluate_direct"
    /\ Logged("resolver", "evaluate_direct", 0)
    /\ \E d \in {None, "", "page_link"} : gen' = [gen EXCEPT !.direct_download = d]
    /\ gStep' = gStep + 1
    /\ UNCHANGED <<pc, url, pw, browser, closeCalls, exStep, exRet, genRet,
                   pending, dlCall, out>>
    /\ Unpipe

\* generator.py:165  await browser.close(), completing
Gen_Close ==
    /\ pc = "gen_step"
    /\ GenSteps[gStep] = "close"
    /\ Logged("resolver", "close", 0)
    /\ closeCalls' = closeCalls \cup {"resolver"}
    /\ browser' = [browser EXCEPT !["resolver"] = "closed"]
    /\ gen' = [gen EXCEPT !.after = "normal"]
    /\ pc' = "gen_exit"
    /\ UNCHANGED <<url, pw, exStep, exRet, gStep, genRet, pending, dlCall, out>>
    /\ Unpipe

\* generator.py:162-163  an Exception inside the click block is printed and
\* the function goes on to browser.close()
Gen_ClickRaise ==
    /\ pc = "gen_step"
    /\ GenSteps[gStep] \in ClickSteps
    /\ Logged("resolver", GenSteps[gStep], 0)
    /\ gStep' = StepNo("close")
    /\ UNCHANGED <<pc, url, pw, browser, closeCalls, exStep, exRet, gen, genRet,
                   pending, dlCall, out>>
    /\ Unpipe

\* generator.py:40-165  an Exception of any other await of the block: no
\* handler and no finally stands between it and line 277, so the block is
\* left at once.
Gen_StepRaise ==
    /\ pc = "gen_step"
    /\ GenSteps[gStep] \notin ClickSteps
    /\ Logged("resolver", GenSteps[gStep], 0)
    /\ closeCalls' = IF GenSteps[gStep] = "close"
                     THEN closeCalls \cup {"resolver"} ELSE closeCalls
    /\ gen' = [gen EXCEPT !.after = "exception"]
    /\ pc' = "gen_exit"
    /\ UNCHANGED <<url, pw, browser, exStep, exRet, gStep, genRet, pending,
                   dlCall, out>>
    /\ Unpipe

\* An interruption at any suspension point of the block: CancelledError
\* passes both except Exception clauses.
Gen_Interrupt ==
    /\ pc = "gen_step"
    /\ Logged("resolver", GenSteps[gStep], 0)
    /\ closeCalls' = IF GenSteps[gStep] = "close"
                     THEN closeCalls \cup {"resolver"} ELSE closeCalls
    /\ pending' = "CancelledError"
    /\ pc' = "gen_exit"
    /\ UNCHANGED <<url, pw, browser, exStep, exRet, gStep, gen, genRet, dlCall, out>>
    /\ Unpipe

\* generator.py:39, 277-278  the end of the async with block: on to line
\* 167, or to the outer handler, or out of the function with the interruption
Gen_Exit ==
    /\ pc = "gen_exit"
    /\ StopDriver("resolver")
    /\ IF pending # ""
       THEN pc' = "main_interrupt" /\ genRet' = genRet
       ELSE IF gen.after = "exception"
       THEN pc' = "pv_unpack" /\ genRet' = <<None, "API error: browser failure">>
       ELSE pc' = "gen_after" /\ genRet' = genRet
    /\ UNCHANGED <<url, closeCalls, log, exStep, exRet, gStep, gen, pending,
                   dlCall, out>>
    /\ Unpipe

---------------------------------------------------------------------------
(* src/generator.py: generate_download_link after the browser block *)

\* generator.py:255  f"API error with {api_base}: {str(e)}"
ApiExcText(i) ==
    <<"API error with https://www.terabox.app: request failed",
      "API error with https://www.teraboxapp.com: request failed",
      "API error with https://terabox.com: request failed",
      "API error with https://terasharelink.com: request failed">>[i]

\* Mutant of Gen_After: the scraped link is not returned before the API loop.
Gen_After_IgnoresScrape ==
    /\ pc = "gen_after"
    /\ gen' = [gen EXCEPT
                 !.csrf_token = IF Falsy(gen.csrf_token) THEN "" ELSE @,
                 !.last_error = "Unknown error",
                 !.api = 1]
    /\ pc' = "api_list"
    /\ genRet' = genRet
    /\ UNCHANGED <<url, pw, browser, closeCalls, log, exStep, exRet, gStep,
                   pending, dlCall, out>>
    /\ Unpipe

\* generator.py:167-179  return the scraped link, or set up the API loop
Gen_After ==
    /\ pc = "gen_after"
    /\ IF ~Falsy(gen.direct_download)
       THEN /\ genRet' = <<gen.direct_download, "">>
            /\ pc' = "pv_unpack"
            /\ gen' = gen
       ELSE /\ gen' = [gen EXCEPT
                         !.csrf_token = IF Falsy(gen.csrf_token) THEN "" ELSE @,
                         !.last_error = "Unknown error",
                         !.api = 1]
            /\ pc' = "api_list"
            /\ genRet' = genRet
    /\ UNCHANGED <<url, pw, browser, closeCalls, log, exStep, exRet, gStep,
                   pending, dlCall, out>>
    /\ Unpipe

\* Mutant of AfterFailure: `break` where the code has `continue`.
AfterFailure_Breaks(i) == [pc |-> "plain_get", api |-> i]

\* generator.py:179, 213, 220, 243, 249, 257-260  `continue`: the next base
\* of API_BASES, or past the loop once the last one has failed
AfterFailure(i) ==
    IF i < Len(API_BASES)
    THEN [pc |-> "api_list", api |-> i + 1]
    ELSE [pc |-> "plain_get", api |-> i]

\* The last_error a failed list request leaves (lines 211, 218, 255).
ListError(r, i) ==
    CASE r = "errno" -> "List API error: Unknown error"
      [] r = "empty" -> "No files found"
      [] OTHER       -> ApiExcText(i)

\* The last_error a failed share-download request leaves (lines 241, 247, 255).
DownloadError(r, i) ==
    CASE r = "errno"   -> "Download API error: Unknown error"
      [] r = "nodlink" -> "No download link found in response"
      [] OTHER         -> ApiExcText(i)

\* generator.py:206-220, 254-257  GET {api_base}/share/list failing: errno
\* not 0, an empty list, or an Exception (a refused connection, a body that
\* is no JSON, a first file without fs_id)
Api_ListFail ==
    /\ pc = "api_list"
    /\ Logged("api", "list", gen.api)
    /\ \E r \in {"errno", "empty", "raise"} :
         gen' = [gen EXCEPT !.last_error = ListError(r, gen.api),
                            !.api = AfterFailure(gen.api).api]
    /\ pc' = AfterFailure(gen.api).pc
    /\ UNCHANGED <<url, pw, browser, closeCalls, exStep, exRet, gStep, genRet,
                   pending, dlCall, out>>
    /\ Unpipe

\* generator.py:206-222  the list answers errno 0 with a first file
Api_ListOk ==
    /\ pc = "api_list"
    /\ Logged("api", "list", gen.api)
    /\ pc' = "api_download"
    /\ UNCHANGED <<url, pw, browser, closeCalls, exStep, exRet, gStep, gen,
                   genRet, pending, dlCall, out>>
    /\ Unpipe

\* generator.py:237-249, 254-257  POST {api_base}/api/sharedownload failing:
\* errno not 0, no dlink, or an Exception
Api_DownloadFail ==
    /\ pc = "api_download"
    /\ Logged("api", "sharedownload", gen.api)
    /\ \E r \in {"errno", "nodlink", "raise"} :
         gen' = [gen EXCEPT !.last_error = DownloadError(r, gen.api),
                            !.api = AfterFailure(gen.api).api]
    /\ pc' = AfterFailure(gen.api).pc
    /\ UNCHANGED <<url, pw, browser, closeCalls, exStep, exRet, gStep, genRet,
                   pending, dlCall, out>>
    /\ Unpipe

\* generator.py:237-252  errno 0 and a dlink: return dlink, ""
Api_DownloadOk ==
    /\ pc = "api_download"
    /\ Logged("api", "sharedownload", gen.api)
    /\ genRet' = <<DlinkOf(gen.api), "">>
    /\ pc' = "pv_unpack"
    /\ UNCHANGED <<url, pw, browser, closeCalls, exStep, exRet, gStep, gen,
                   pending, dlCall, out>>
    /\ Unpipe

\* An interruption while a list or share-download request is awaited.
Api_Interrupt ==
    /\ pc \in {"api_list", "api_download"}
    /\ Logged("api", IF pc = "api_list" THEN "list" ELSE "sharedownload", gen.api)
    /\ pending' = "CancelledError"
    /\ pc' = "main_interrupt"
    /\ UNCHANGED <<url, pw, browser, closeCalls, exStep, exRet, gStep, gen,
                   genRet, dlCall, out>>
    /\ Unpipe

\* Mutant of PlainGetResult: a fixed message instead of last_error.
PlainGetResult_Generic(r, last_error) ==
    CASE r = "match" -> <<"html_href", "">>
      [] r = "raise" -> <<None, "API error: request failed">>
      [] OTHER       -> <<None, "Failed to generate download link">>

\* generator.py:268-278  what the function returns after the plain GET: the
\* first matching href; last_error for a status other than 200 or a body
\* without a match; the outer handler's message for an Exception
PlainGetResult(r, last_error) ==
    CASE r = "match" -> <<"html_href", "">>
      [] r = "raise" -> <<None, "API error: request failed">>
      [] OTHER       -> <<None, last_error>>

\* generator.py:259-278  the plain GET of the share URL
Plain_Get ==
    /\ pc = "plain_get"
    /\ Logged("http", "plain_get", 0)
    /\ \E r \in {"non200", "nomatch", "match", "raise"} :
         /\ genRet' = PlainGetResult(r, gen.last_error)
         /\ gen' = [gen EXCEPT !.plain = r]
    /\ pc' = "pv_unpack"
    /\ UNCHANGED <<url, pw, browser, closeCalls, exStep, exRet, gStep,
                   pending, dlCall, out>>
    /\ Unpipe

---------------------------------------------------------------------------
(* main.py: the tail of process_video, and main *)

\* The parameters of download_video after self (generator.py:280).
DownloadParams == <<"video_url", "file_info", "output_dir">>

\* main.py:49-66  the three-name unpacking of what generate_download_link
\* returned, the two checks, and the call of download_video with four
\* arguments.  A tuple of another length raises ValueError at the
\* assignment; a call with more arguments than parameters raises TypeError.
PV_Unpack ==
    /\ pc = "pv_unpack"
    /\ IF Len(genRet) # 3
       THEN /\ pending' = "ValueError"
            /\ pc' = "main_except"
            /\ UNCHANGED <<out, dlCall>>
       ELSE LET download_link == genRet[1]
                cookies       == genRet[2]
                error         == genRet[3]
                args          == <<download_link, cookies, exRet[1], output_dir>>
            IN  IF ~Falsy(error)
                THEN /\ out' = Append(out, Line("Error: ", error))
                     /\ pc' = "pv_return"
                     /\ UNCHANGED <<pending, dlCall>>
                ELSE IF Falsy(download_link)
                THEN /\ out' = Append(out, Line("Error: ", "Failed to generate download link"))
                     /\ pc' = "pv_return"
                     /\ UNCHANGED <<pending, dlCall>>
                ELSE IF Len(args) # Len(DownloadParams)
                THEN /\ pending' = "TypeError"
                     /\ pc' = "main_except"
                     /\ UNCHANGED <<out, dlCall>>
                ELSE /\ dlCall' = args
                     /\ pc' = "pv_download"
                     /\ UNCHANGED <<out, pending>>
    /\ UNCHANGED <<url, pw, browser, closeCalls, log, exStep, exRet, gStep, gen,
                   genRet>>
    /\ Unpipe

\* main.py:90, 96  process_video returned: print Done.
Main_Done ==
    /\ pc = "pv_return"
    /\ out' = Append(out, Line("", "Done."))
    /\ pc' = "done"
    /\ UNCHANGED <<url, pw, browser, closeCalls, log, exStep, exRet, gStep, gen,
                   genRet, pending, dlCall>>
    /\ Unpipe

\* main.py:91-92, 96  except KeyboardInterrupt
Main_Interrupted ==
    /\ pc = "main_interrupt"
    /\ out' = out \o <<Line("", "Process interrupted by user"), Line("", "Done.")>>
    /\ pc' = "done"
    /\ UNCHANGED <<url, pw, browser, closeCalls, log, exStep, exRet, gStep, gen,
                   genRet, pending, dlCall>>
    /\ Unpipe

\* main.py:93-94, 96  except Exception as e
Main_Except ==
    /\ pc = "main_except"
    /\ out' = out \o <<Line("An error occurred: ", ExcText(pending)), Line("", "Done.")>>
    /\ pc' = "done"
    /\ UNCHANGED <<url, pw, browser, closeCalls, log, exStep, exRet, gStep, gen,
                   genRet, pending, dlCall>>
    /\ Unpipe

Next ==
    \/ Main_Run \/ PV_Validate
    \/ Ex_Enter \/ Ex_EnterRaise \/ Ex_StepOk \/ Ex_Evaluate \/ Ex_StepRaise
    \/ Ex_Interrupt \/ Ex_Finally \/ Ex_Exit \/ PV_Extracted
    \/ Gen_Enter \/ Gen_Launch \/ Gen_Plain \/ Gen_EvalCsrf \/ Gen_Content
    \/ Gen_EvalDirect \/ Gen_Close \/ Gen_ClickRaise \/ Gen_StepRaise
    \/ Gen_Interrupt \/ Gen_Exit \/ Gen_After
    \/ Api_ListFail \/ Api_ListOk \/ Api_DownloadFail \/ Api_DownloadOk
    \/ Api_Interrupt \/ Plain_Get
    \/ PV_Unpack \/ Main_Done \/ Main_Interrupted \/ Main_Except

Spec == Init /\ [][Next]_vars

---------------------------------------------------------------------------
(* Properties of the pipeline, checked under Spec *)

HasCall(stage, call) ==
    \E k \in 1..Len(log) : log[k].stage = stage /\ log[k].call = call

StageCalls(stage) == SelectSeq(log, LAMBDA c : c.stage = stage)

\* The order in which the stages may issue calls.
Rank(stage) ==
    CASE stage = "extractor" -> 1
      [] stage = "resolver"  -> 2
      [] stage = "api"       -> 3
      [] OTHER               -> 4

ExtractorGaveMetadata ==
    Len(exRet) = 2 /\ exRet[1].present /\ exRet[1].name # <<>> /\ exRet[2] = ""

ResolverGaveLink == Len(genRet) >= 1 /\ ~Falsy(genRet[1])

ResolverStarted ==
    \/ pw["resolver"] # "none"
    \/ \E k \in 1..Len(log) : log[k].stage \in {"resolver", "api", "http"}

\* C1: a run in which validation succeeded, the Extractor returned metadata
\* and the Resolver returned a direct link has, once it is over, invoked
\* download_video with exactly that link, that metadata and the output
\* directory.
C1_DownloaderGetsResolvedLink ==
    (pc = "done" /\ validate_terabox_url(url) /\ ExtractorGaveMetadata
                 /\ ResolverGaveLink)
        => dlCall = <<genRet[1], exRet[1], output_dir>>

\* C2: nothing is opened or requested unless the URL validated; the Resolver
\* starts only after the Extractor has returned metadata with a non-empty
\* name (and has left its browser block); the Downloader is called only
\* with a non-empty link the Resolver returned; and the calls of the stages
\* appear in stage order.
C2_StagesGated ==
    /\ (log # <<>> \/ \E s \in Stages : pw[s] # "none" \/ browser[s] # "none")
          => validate_terabox_url(url)
    /\ ResolverStarted => (ExtractorGaveMetadata /\ pw["extractor"] = "stopped")
    /\ dlCall # <<>> => (ResolverGaveLink /\ dlCall[1] = genRet[1])
    /\ \A i, j \in 1..Len(log) :
          i < j => Rank(log[i].stage) <= Rank(log[j].stage)

\* C2 witness: the Resolver is running its API negotiation.
C2_Witness == pc = "api_download" /\ gen.api = 2

ApiBasesContacted == {StageCalls("api")[k].base : k \in 1..Len(StageCalls("api"))}

ListCalls == SelectSeq(log, LAMBDA c : c.stage = "api" /\ c.call = "list")

\* C4: list requests go to the bases in the order of API_BASES, one per
\* base, none skipped; a share-download request follows the list request of
\* the same base; the plain GET comes only after every base was contacted;
\* and when base k's dlink is returned exactly the bases 1..k were contacted.
C4_ApiBasesInOrder ==
    /\ \A k \in 1..Len(ListCalls) : ListCalls[k].base = k
    /\ \A k \in 1..Len(StageCalls("api")) :
          StageCalls("api")[k].call = "sharedownload"
             => /\ k > 1
                /\ StageCalls("api")[k - 1] = Call("api", "list", StageCalls("api")[k].base)
    /\ HasCall("http", "plain_get") => ApiBasesContacted = 1..Len(API_BASES)
    /\ \A k \in 1..Len(API_BASES) :
          (Len(genRet) = 2 /\ genRet[1] = DlinkOf(k))
             => /\ ApiBasesContacted = 1..k
                /\ Len(ListCalls) = k
                /\ log[Len(log)] = Call("api", "sharedownload", k)
                /\ genRet[2] = ""

\* C4 witness: the first two bases failed and the third gave its dlink.
C4_Witness == Len(genRet) = 2 /\ genRet[1] = DlinkOf(3) /\ pc = "done"

Printed(msg) == \E k \in 1..Len(out) : out[k].msg = msg

\* C5: a finished run whose validation failed, or whose Extractor or
\* Resolver returned an error, has run no later stage and has printed that
\* stage's own message.
C5_StageErrorSurfaced ==
    pc = "done" =>
        /\ ~validate_terabox_url(url) => (Printed("Invalid Terabox URL") /\ log = <<>>)
        /\ (Len(exRet) = 2 /\ exRet[2] # "") => (Printed(exRet[2]) /\ ~ResolverStarted)
        /\ (Len(genRet) = 2 /\ genRet[2] # "") => (Printed(genRet[2]) /\ dlCall = <<>>)

\* C6: once the Resolver has left its browser block, a session it launched
\* has had browser.close() called on it.
C6_ResolverClosesBrowser ==
    (pw["resolver"] = "stopped" /\ browser["resolver"] # "none")
        => "resolver" \in closeCalls

\* C7: once get_video_info is past its finally clause, a session it launched
\* has had browser.close() called on it, and after the function is left the
\* session is not open; an Exception raised inside its try block is
\* returned as a message and never leaves the function.
C7_ExtractorClosesBrowser ==
    /\ (pc \notin {"ex_step", "ex_finally"} /\ browser["extractor"] # "none")
          => "extractor" \in closeCalls
    /\ pw["extractor"] = "stopped" => browser["extractor"] \in {"none", "closed"}
    /\ pending = "Exception" => StageCalls("extractor") = <<>>
    /\ (pc = "pv_extracted" /\ ~ExtractorGaveMetadata)
          => (~exRet[1].present /\ exRet[2] # "")

\* C7 witness: an interruption during an extractor step after the launch,
\* with the session closed on the way out.
C7_Witness ==
    /\ pc = "main_interrupt" /\ pending = "CancelledError"
    /\ "extractor" \in closeCalls /\ pw["resolver"] = "none"

---------------------------------------------------------------------------
(* The URL validator alone: SpecValidate *)

MaxUrlTokens == 4

\* The pieces URLs are put together from: scheme and slashes, host names, a
\* userinfo, a port, a path, a query, a fragment, an opening bracket.
UrlTokens ==
    {U_scheme \o U_slashes, U_scheme, U_slashes, H_www, H_terabox, H_evil,
     <<"u","@">>, <<":","4","4","3">>, U_path, <<"?","q">>, <<"#","f">>, <<"[">>}

Urls ==
    {Concat(ts) : ts \in UNION {[1..k -> UrlTokens] : k \in 0..MaxUrlTokens}}

PyBool(b) == IF b THEN "True" ELSE "False"

InitValidate ==
    /\ vUrl \in Urls /\ vResult = "pending"
    /\ InitPipelineIdle /\ InitDownloadIdle

\* utils.py:6-23  one call of validate_terabox_url
Validate ==
    /\ vResult = "pending"
    /\ vResult' = PyBool(validate_terabox_url(vUrl))
    /\ UNCHANGED <<vUrl, pipeVars, dlVars>>

NextValidate == Validate

SpecValidate == InitValidate /\ [][NextValidate]_vars

\* The host of a network location: what follows the userinfo and precedes
\* the port.
HostOf(netloc) ==
    LET at    == RFind(netloc, "@")
        hp    == SubSeq(netloc, at + 1, Len(netloc))
        colon == Find(hp, ":")
    IN  IF colon > 0 THEN SubSeq(hp, 1, colon - 1) ELSE hp

\* C8: the call returns True exactly when the URL's host is one of the
\* allow-listed domains and its path is not empty.
C8_TrueIffAllowedHostAndPath ==
    vResult # "pending" =>
        LET parsed == urlparse(vUrl)
        IN  (vResult = "True") <=>
               /\ ~parsed.raised
               /\ HostOf(parsed.netloc) \in AllowedNetlocs
               /\ parsed.path # <<>>

---------------------------------------------------------------------------
(* src/generator.py: LinkGenerator.download_video, the file name *)

Whitespace == {" ", "\t", "\n"}

\* generator.py:300  the character class [<>:"/\\|?*]
InvalidChars == {"<", ">", ":", "\"", "/", "\\", "|", "?", "*"}

Ext_mp4 == <<".", "m", "p", "4">>

MaxFilenameLen == 200
KeptFilenameLen == 196
block_size == 8192

\* generator.py:297  str.strip()
Strip(s) ==
    LET keep == {k \in 1..Len(s) : s[k] \notin Whitespace}
    IN  IF keep = {} THEN <<>>
        ELSE SubSeq(s, CHOOSE k \in keep : \A j \in keep : k <= j,
                       CHOOSE k \in keep : \A j \in keep : k >= j)

\* generator.py:300  re.sub(r'[<>:"/\\|?*]', '', filename)
RemoveInvalid(s) == SelectSeq(s, LAMBDA c : c \notin InvalidChars)

\* re.sub(run+, rep, s) for a run of characters of `class`: every maximal
\* run becomes one rep.
CollapseRuns(s, class, rep) ==
    LET marked == [k \in 1..Len(s) |->
                     [char  |-> IF s[k] \in class THEN rep ELSE s[k],
                      first |-> s[k] \notin class \/ k = 1 \/ s[k - 1] \notin class]]
        kept   == SelectSeq(marked, LAMBDA m : m.first)
    IN  [k \in 1..Len(kept) |-> kept[k].char]

\* Mutant of EnsureMp4: the extension is replaced instead of appended to.
EnsureMp4_ReplacesExtension(f) ==
    IF EndsWith(Lower(f), Ext_mp4) THEN f
    ELSE IF RFind(f, ".") > 0 THEN SubSeq(f, 1, RFind(f, ".") - 1) \o Ext_mp4
    ELSE f \o Ext_mp4

\* generator.py:305-306  if not filename.lower().endswith('.mp4'): filename += '.mp4'
EnsureMp4(f) == IF ~EndsWith(Lower(f), Ext_mp4) THEN f \o Ext_mp4 ELSE f

\* generator.py:308-309  if len(filename) > 200: filename = filename[:196] + '.mp4'
Truncate(f) ==
    IF Len(f) > MaxFilenameLen THEN SubSeq(f, 1, KeptFilenameLen) \o Ext_mp4 ELSE f

\* generator.py:297  file_info.get("name", "video")
NameOf(info) ==
    IF "name" \in DOMAIN info THEN info.name ELSE <<"v","i","d","e","o">>

\* generator.py:296-309
SanitizedFilename(info) ==
    Truncate(EnsureMp4(
        CollapseRuns(
            CollapseRuns(RemoveInvalid(Strip(NameOf(info))), Whitespace, "_"),
            {"."}, ".")))

---------------------------------------------------------------------------
(* src/generator.py: LinkGenerator.download_video, the transfer: SpecDownload *)

MaxNameLen == 2
MaxBodyLen == 3

N_MyVideo == <<"M","y"," ","V","i","d","e","o","?","?","?",".","M","K","V">>
N_Long    == [k \in 1..250 |-> "a"]
N_Upper   == <<"x",".","M","P","4">>
N_Dotted  == <<" ","a",".",".","b"," ","\t","c",".","m","p","4">>

NameAlphabet == {"a", " ", "?", "."}

Names ==
    {N_MyVideo, N_Long, N_Upper, N_Dotted}
        \cup UNION {[1..k -> NameAlphabet] : k \in 0..MaxNameLen}

\* file_info as download_video may be handed it: with a name, or without one.
FileInfos == {[name |-> n, size |-> ""] : n \in Names} \cup {[size |-> ""]}

Bytes == {0, 1}
Bodies == UNION {[1..k -> Bytes] : k \in 0..MaxBodyLen}

Min(a, b) == IF a <= b THEN a ELSE b

\* download_video(video_url, file_info, output_dir) is called; the file at
\* output_path may exist already.
InitDownload ==
    /\ dlPc = "start"
    /\ dlInfo \in FileInfos
    /\ dlBody \in Bodies
    /\ dlSent = 0 /\ dlChunks = <<>> /\ dlFilename = <<>>
    /\ dlFile \in {<<>>, <<1>>}
    /\ dlHandle = "never" /\ dlRet = <<>>
    /\ InitPipelineIdle /\ InitValidateIdle

\* generator.py:294-316  makedirs, the file name, output_path
DL_Prepare ==
    /\ dlPc = "start"
    /\ dlFilename' = SanitizedFilename(dlInfo)
    /\ dlPc' = "get"
    /\ UNCHANGED <<dlInfo, dlBody, dlSent, dlChunks, dlFile, dlHandle, dlRet>>
    /\ UNCHANGED <<pipeVars, valVars>>

\* generator.py:321-325  requests.get(stream=True) answered with a success status
DL_Get ==
    /\ dlPc = "get"
    /\ dlPc' = "open"
    /\ UNCHANGED <<dlInfo, dlBody, dlSent, dlChunks, dlFilename, dlFile, dlHandle, dlRet>>
    /\ UNCHANGED <<pipeVars, valVars>>

\* generator.py:327  open(output_path, 'wb'): the file is created or emptied
DL_Open ==
    /\ dlPc = "open"
    /\ dlFile' = <<>>
    /\ dlHandle' = "open"
    /\ dlPc' = "stream"
    /\ UNCHANGED <<dlInfo, dlBody, dlSent, dlChunks, dlFilename, dlRet>>
    /\ UNCHANGED <<pipeVars, valVars>>

\* Mutant of WriteChunk: each chunk is written at the start of the file.
WriteChunk_AtStart(f, data) ==
    data \o SubSeq(f, Len(data) + 1, Len(f))

\* generator.py:334  f.write(data) on a handle opened 'wb'
WriteChunk(f, data) == f \o data

\* generator.py:333-335  one chunk of iter_content(block_size): at most
\* block_size of the bytes not yet delivered, written at once
DL_Chunk ==
    /\ dlPc = "stream"
    /\ dlSent < Len(dlBody)
    /\ \E n \in 1..Min(block_size, Len(dlBody) - dlSent) :
         LET data == SubSeq(dlBody, dlSent + 1, dlSent + n)
         IN  /\ dlChunks' = Append(dlChunks, data)
             /\ dlFile' = WriteChunk(dlFile, data)
             /\ dlSent' = dlSent + n
    /\ UNCHANGED <<dlPc, dlInfo, dlBody, dlFilename, dlHandle, dlRet>>
    /\ UNCHANGED <<pipeVars, valVars>>

\* generator.py:333-337  the body is exhausted: the with block closes the
\* file and the path is returned
DL_Finish ==
    /\ dlPc = "stream"
    /\ dlSent = Len(dlBody)
    /\ dlHandle' = "closed"
    /\ dlRet' = <<TRUE, [dir |-> output_dir, file |-> dlFilename]>>
    /\ dlPc' = "done"
    /\ UNCHANGED <<dlInfo, dlBody, dlSent, dlChunks, dlFilename, dlFile>>
    /\ UNCHANGED <<pipeVars, valVars>>

\* generator.py:339-340  an Exception of the step being run (makedirs, the
\* request or raise_for_status, open, a read of the body or a write): the
\* with block closes an open file and the message is returned
DL_Raise ==
    /\ dlPc \in {"start", "get", "open", "stream"}
    /\ dlHandle' = IF dlHandle = "open" THEN "closed" ELSE dlHandle
    /\ dlRet' = <<FALSE, "Download error: request failed">>
    /\ dlPc' = "done"
    /\ UNCHANGED <<dlInfo, dlBody, dlSent, dlChunks, dlFilename, dlFile>>
    /\ UNCHANGED <<pipeVars, valVars>>

NextDownload ==
    \/ DL_Prepare \/ DL_Get \/ DL_Open \/ DL_Chunk \/ DL_Finish \/ DL_Raise

SpecDownload == InitDownload /\ [][NextDownload]_vars

\* C9: from the moment the file is opened, its content is the concatenation
\* of the chunks received so far, in arrival order, which is a prefix of the
\* body; when download_video returns success it is the whole body.
C9_FileIsReceivedBytes ==
    dlHandle # "never" =>
        /\ dlFile = Concat(dlChunks)
        /\ Len(dlFile) <= Len(dlBody)
        /\ dlFile = SubSeq(dlBody, 1, Len(dlFile))
        /\ (dlPc = "done" /\ dlRet[1]) => dlFile = dlBody

\* C9 witness: a successful download of a body that arrived in chunks of
\* different sizes, over a file that existed before.
C9_Witness ==
    /\ dlPc = "done" /\ dlRet[1]
    /\ Len(dlChunks) >= 2 /\ Len(dlChunks[1]) # Len(dlChunks[2])
    /\ dlFile = dlBody

HasSubstring(s, t) ==
    \E k \in 0..(Len(s) - Len(t)) : SubSeq(s, k + 1, k + Len(t)) = t

\* C10 as stated: the file name derived from `My Video???.MKV` matches
\* My_Video\.mp4.
C10_MyVideoBecomesMp4 ==
    (NameOf(dlInfo) = N_MyVideo /\ dlFilename # <<>>)
        => HasSubstring(dlFilename, <<"M","y","_","V","i","d","e","o",".","m","p","4">>)

\* C10 amended: the file name derived from `My Video???.MKV` is
\* My_Video.MKV.mp4: the question marks are gone, the space is one
\* underscore, and .mp4 is appended to the name, which keeps its .MKV.
C10_MyVideoKeepsMkv ==
    (NameOf(dlInfo) = N_MyVideo /\ dlFilename # <<>>)
        => dlFilename = <<"M","y","_","V","i","d","e","o",".","M","K","V",
                          ".","m","p","4">>

\* C10 witness: a download under that name has returned its path.
C10_Witness ==
    /\ NameOf(dlInfo) = N_MyVideo
    /\ dlPc = "done" /\ dlRet[1] /\ dlRet[2].file = dlFilename

---------------------------------------------------------------------------
(* Further properties of the Resolver and of the sessions, checked under Spec *)

ResolverReturned == Len(genRet) = 2

\* C11: whenever the page scrape found a download link, what the Resolver
\* returns is that link with an empty error message, whatever the browser
\* steps after the scrape did.
C11_ScrapedLinkIsResult ==
    (ResolverReturned /\ ~Falsy(gen.direct_download))
        => genRet = <<gen.direct_download, "">>

\* The messages a failure at base i can leave in last_error.
ApiErrorsOf(i) ==
    {ListError(r, i) : r \in {"errno", "empty", "raise"}}
        \cup {DownloadError(r, i) : r \in {"errno", "nodlink", "raise"}}

\* The plain GET is issued only after every base of API_BASES was contacted
\* and none gave a link, the page scrape having given none either.
PlainGetOnlyAfterAllBases ==
    HasCall("http", "plain_get") =>
        /\ ApiBasesContacted = 1..Len(API_BASES)
        /\ Falsy(gen.direct_download)
        /\ gen.last_error \in ApiErrorsOf(Len(API_BASES))
        /\ \A k \in 1..Len(log) : log[k].stage = "http" => k = Len(log)

\* C12 as stated: the plain GET comes only after every base failed, and
\* when it yields no link too (a status other than 200, no matching href,
\* or a failed request) the Resolver returns no link and the last error
\* recorded during the API negotiation.
C12_AllFailedReturnsLastError ==
    /\ PlainGetOnlyAfterAllBases
    /\ gen.plain \in {"non200", "nomatch", "raise"}
          => genRet = <<None, gen.last_error>>

\* C12 amended: the same for a status other than 200 and for a body without
\* a matching href; when the plain GET raises, the Resolver returns no link
\* and the message of that exception, "API error: ...", instead.
C12_AllFailedReturnsLastErrorUnlessRaised ==
    /\ PlainGetOnlyAfterAllBases
    /\ gen.plain \in {"non200", "nomatch"} => genRet = <<None, gen.last_error>>
    /\ gen.plain = "raise"
          => (genRet = <<None, "API error: request failed">>
              /\ genRet[2] \notin ApiErrorsOf(Len(API_BASES)))

\* C12 witness: every base failed, the last with an empty file list, and
\* the plain GET found no href.
C12_Witness ==
    /\ gen.plain = "nomatch"
    /\ genRet = <<None, "No files found">>
    /\ Len(ListCalls) = Len(API_BASES)

OpenSessions == {s \in Stages : browser[s] = "open"}

\* C13: at most one browser session is open in any state of a run; once the
\* Resolver has started its driver the Extractor's session is closed (close
\* was called on it and its driver is stopped); and no session is open once
\* the function has left the browser block: not when an API or plain-GET
\* request has been issued, and not where process_video goes on to the
\* download call.
C13_AtMostOneSession ==
    /\ Cardinality(OpenSessions) <= 1
    /\ pw["resolver"] # "none" =>
           /\ browser["extractor"] = "closed"
           /\ "extractor" \in closeCalls
           /\ pw["extractor"] = "stopped"
    /\ (HasCall("api", "list") \/ HasCall("http", "plain_get")) =>
           OpenSessions = {}
    /\ pc \in {"gen_after", "api_list", "api_download", "plain_get",
               "pv_unpack"} => OpenSessions = {}

\* C13 witness: the API negotiation is under way after both stages opened a
\* session and closed it.
C13_Witness ==
    /\ pc = "api_download"
    /\ HasCall("extractor", "launch") /\ HasCall("resolver", "launch")
    /\ closeCalls = Stages
    /\ OpenSessions = {}

====
